---------------------------- MODULE Spec2Model ----------------------------
(***************************************************************************)
(* Model of the Google Analytics OAuth relay (archerrito/mcp-server).      *)
(*                                                                         *)
(* Two deployable variants are modelled:                                   *)
(*   variant "A"  src/src/index.ts      (direct store: Supabase)           *)
(*   variant "B"  src/unnamed/part_000  (bridge call to an edge function)  *)
(*                                                                         *)
(* Every HTTP handler is cut at its await points: one action per segment   *)
(* of code that runs without suspension.  The identity provider, the       *)
(* credential store, the bridge and the analytics API are external: their  *)
(* answers are chosen nondeterministically.                                *)
(***************************************************************************)
EXTENDS Integers, Sequences, FiniteSets, TLC

(***************************************************************************)
(* Text.  A string that goes through an encoder is a sequence of           *)
(* one-character strings.                                                  *)
(***************************************************************************)

\* Printable ASCII, codes 32..126: Ascii[i] has code i + 31 (the grave
\* accent, code 96, is spelled out).
Ascii ==
  << " ", "!", "\"", "#", "$", "%", "&", "'", "(", ")", "*", "+", ",", "-",
     ".", "/", "0", "1", "2", "3", "4", "5", "6", "7", "8", "9", ":", ";",
     "<", "=", ">", "?", "@", "A", "B", "C", "D", "E", "F", "G", "H", "I",
     "J", "K", "L", "M", "N", "O", "P", "Q", "R", "S", "T", "U", "V", "W",
     "X", "Y", "Z", "[", "\\", "]", "^", "_", "GRAVE", "a", "b", "c", "d", "e",
     "f", "g", "h", "i", "j", "k", "l", "m", "n", "o", "p", "q", "r", "s",
     "t", "u", "v", "w", "x", "y", "z", "{", "|", "}", "~" >>

\* The replacement character a UTF-8 decoder emits for a byte that is not
\* (part of) an ASCII character, and a stand-in for the control characters.
Replacement == "U+FFFD"

Control == "U+0000"

\* Buffer.from(string): the UTF-8 bytes of an ASCII string.
CharCode(c) == 31 + (CHOOSE i \in 1..Len(Ascii) : Ascii[i] = c)

Utf8Bytes(s) == [i \in 1..Len(s) |-> CharCode(s[i])]

\* buffer.toString(): UTF-8 decoding of a byte sequence.
ByteChar(b) ==
  IF b >= 32 /\ b <= 126 THEN Ascii[b - 31]
  ELSE IF b < 32 THEN Control
  ELSE Replacement

Utf8String(bytes) == [i \in 1..Len(bytes) |-> ByteChar(bytes[i])]

\* The base64 alphabet: Base64Alphabet[i] encodes the sextet i - 1.
Base64Alphabet ==
  << "A", "B", "C", "D", "E", "F", "G", "H", "I", "J", "K", "L", "M", "N",
     "O", "P", "Q", "R", "S", "T", "U", "V", "W", "X", "Y", "Z", "a", "b",
     "c", "d", "e", "f", "g", "h", "i", "j", "k", "l", "m", "n", "o", "p",
     "q", "r", "s", "t", "u", "v", "w", "x", "y", "z", "0", "1", "2", "3",
     "4", "5", "6", "7", "8", "9", "+", "/" >>

SextetChar(v) == Base64Alphabet[v + 1]

IsBase64Char(c) == \E i \in 1..Len(Base64Alphabet) : Base64Alphabet[i] = c

CharSextet(c) == (CHOOSE i \in 1..Len(Base64Alphabet) : Base64Alphabet[i] = c) - 1

\* buffer.toString('base64'): three bytes make four characters; a tail of
\* one or two bytes is padded with "=".  Character i belongs to the group
\* of bytes 3g+1..3g+3 where g = (i - 1) \div 4.
Base64Encode(bytes) ==
  LET n == Len(bytes)
      byte(j) == IF j <= n THEN bytes[j] ELSE 0
      char(i) ==
        LET g == (i - 1) \div 4
            k == (i - 1) % 4
            b1 == byte(3 * g + 1)
            b2 == byte(3 * g + 2)
            b3 == byte(3 * g + 3)
        IN  IF k = 0 THEN SextetChar(b1 \div 4)
            ELSE IF k = 1 THEN SextetChar((b1 % 4) * 16 + b2 \div 16)
            ELSE IF k = 2 THEN
              IF 3 * g + 2 > n THEN "=" ELSE SextetChar((b2 % 16) * 4 + b3 \div 64)
            ELSE IF 3 * g + 3 > n THEN "=" ELSE SextetChar(b3 % 64)
  IN  [i \in 1..(4 * ((n + 2) \div 3)) |-> char(i)]

\* The sextets Node's lenient base64 decoder reads: it stops at the first
\* "=" and skips every character outside the alphabet.
Base64Sextets(s) ==
  LET pads == {i \in 1..Len(s) : s[i] = "="}
      stop == IF pads = {} THEN Len(s) + 1
              ELSE CHOOSE i \in pads : \A j \in pads : i <= j
      read == SelectSeq(SubSeq(s, 1, stop - 1), IsBase64Char)
  IN  [i \in 1..Len(read) |-> CharSextet(read[i])]

\* Byte j is made of the eight bits from bit 8(j-1) of the sextet stream; an
\* incomplete last byte is dropped.
SextetBytes(x) ==
  LET byte(j) ==
        LET q == ((j - 1) * 8) \div 6 + 1
            r == ((j - 1) * 8) % 6
        IN  IF r = 0 THEN x[q] * 4 + x[q + 1] \div 16
            ELSE IF r = 2 THEN (x[q] % 16) * 16 + x[q + 1] \div 4
            ELSE (x[q] % 4) * 64 + x[q + 1]
  IN  [j \in 1..((Len(x) * 3) \div 4) |-> byte(j)]

\* Buffer.from(string, 'base64')
Base64Decode(s) == SextetBytes(Base64Sextets(s))

(***************************************************************************)
(* JavaScript values that cross the encoders: a string or undefined.       *)
(***************************************************************************)
Undefined == [t |-> "undefined", s |-> << >>]

Str(s) == [t |-> "string", s |-> s]

\* String(v), as a template literal renders a value.
ToText(v) ==
  IF v.t = "string" THEN v.s
  ELSE << "u", "n", "d", "e", "f", "i", "n", "e", "d" >>

\* !v for a string or undefined
Falsy(v) == v.t = "undefined" \/ v.s = << >>

(***************************************************************************)
(* JSON.stringify of a flat object: members in insertion order, a member   *)
(* whose value is undefined is left out, quotes and backslashes escaped.   *)
(***************************************************************************)
RECURSIVE JsonEscape(_)
JsonEscape(s) ==
  IF Len(s) = 0 THEN << >>
  ELSE IF s[1] = "\"" \/ s[1] = "\\" THEN << "\\", s[1] >> \o JsonEscape(Tail(s))
  ELSE << s[1] >> \o JsonEscape(Tail(s))

JsonQuote(s) == << "\"" >> \o JsonEscape(s) \o << "\"" >>

\* members: a sequence of <<key, value>>; first tells whether a comma is due
RECURSIVE JsonMembers(_, _)
JsonMembers(members, first) ==
  IF Len(members) = 0 THEN << >>
  ELSE IF members[1][2].t = "undefined" THEN JsonMembers(Tail(members), first)
  ELSE (IF first THEN << >> ELSE << "," >>)
       \o JsonQuote(members[1][1]) \o << ":" >> \o JsonQuote(members[1][2].s)
       \o JsonMembers(Tail(members), FALSE)

JsonStringify(members) == << "{" >> \o JsonMembers(members, TRUE) \o << "}" >>

(***************************************************************************)
(* JSON.parse, for the grammar the relay meets: a flat object of string    *)
(* members, a string, a number or null.  Anything else is a SyntaxError.   *)
(* A parse result is [t, s, members]; t = "error" is the thrown error.     *)
(***************************************************************************)
JsonError == [t |-> "error", s |-> << >>, members |-> << >>]

IsWs(c) == c = " "

IsDigit(c) == c \in {"0", "1", "2", "3", "4", "5", "6", "7", "8", "9"}

RECURSIVE SkipWs(_, _)
SkipWs(t, i) == IF i <= Len(t) /\ IsWs(t[i]) THEN SkipWs(t, i + 1) ELSE i

\* Scans a string literal whose opening quote is at i - 1: the position
\* after the closing quote and the text, or next = 0 when it never closes.
RECURSIVE ScanString(_, _, _)
ScanString(t, i, acc) ==
  IF i > Len(t) \/ t[i] = Control THEN [next |-> 0, s |-> << >>]
  ELSE IF t[i] = "\"" THEN [next |-> i + 1, s |-> acc]
  ELSE IF t[i] = "\\" THEN
    IF i + 1 <= Len(t) /\ t[i + 1] \in {"\"", "\\", "/"}
    THEN ScanString(t, i + 2, Append(acc, t[i + 1]))
    ELSE [next |-> 0, s |-> << >>]
  ELSE ScanString(t, i + 1, Append(acc, t[i]))

ParseString(t, i) ==
  IF i <= Len(t) /\ t[i] = "\"" THEN ScanString(t, i + 1, << >>)
  ELSE [next |-> 0, s |-> << >>]

\* Members of an object, from position i, after "{" or ",": the position
\* after "}" and the members read, or next = 0.
RECURSIVE ParseMembers(_, _, _)
ParseMembers(t, i, acc) ==
  LET k  == ParseString(t, SkipWs(t, i))
      c  == SkipWs(t, k.next)
      v  == ParseString(t, SkipWs(t, c + 1))
      e  == SkipWs(t, v.next)
  IN  IF k.next = 0 \/ c > Len(t) \/ t[c] # ":" \/ v.next = 0 \/ e > Len(t)
      THEN [next |-> 0, members |-> << >>]
      ELSE IF t[e] = "}" THEN [next |-> e + 1, members |-> Append(acc, <<k.s, Str(v.s)>>)]
      ELSE IF t[e] = "," THEN ParseMembers(t, e + 1, Append(acc, <<k.s, Str(v.s)>>))
      ELSE [next |-> 0, members |-> << >>]

RECURSIVE ScanDigits(_, _)
ScanDigits(t, i) == IF i <= Len(t) /\ IsDigit(t[i]) THEN ScanDigits(t, i + 1) ELSE i

ParseValue(t, i) ==
  IF i > Len(t) THEN [next |-> 0, v |-> JsonError]
  ELSE IF t[i] = "{" THEN
    IF SkipWs(t, i + 1) <= Len(t) /\ t[SkipWs(t, i + 1)] = "}"
    THEN [next |-> SkipWs(t, i + 1) + 1,
          v |-> [t |-> "object", s |-> << >>, members |-> << >>]]
    ELSE LET m == ParseMembers(t, i + 1, << >>)
         IN  [next |-> m.next,
              v |-> [t |-> "object", s |-> << >>, members |-> m.members]]
  ELSE IF t[i] = "\"" THEN
    LET r == ParseString(t, i)
    IN  [next |-> r.next, v |-> [t |-> "string", s |-> r.s, members |-> << >>]]
  ELSE IF IsDigit(t[i]) THEN
    [next |-> ScanDigits(t, i),
     v |-> [t |-> "number", s |-> SubSeq(t, i, ScanDigits(t, i) - 1), members |-> << >>]]
  ELSE IF i + 3 <= Len(t) /\ SubSeq(t, i, i + 3) = << "n", "u", "l", "l" >> THEN
    [next |-> i + 4, v |-> [t |-> "null", s |-> << >>, members |-> << >>]]
  ELSE [next |-> 0, v |-> JsonError]

JsonParse(t) ==
  LET r == ParseValue(t, SkipWs(t, 1))
  IN  IF r.next = 0 \/ SkipWs(t, r.next) # Len(t) + 1 THEN JsonError ELSE r.v

\* obj.key for a parsed value: the last member of that name, else undefined.
RECURSIVE MemberOf(_, _)
MemberOf(members, key) ==
  IF Len(members) = 0 THEN Undefined
  ELSE IF members[Len(members)][1] = key THEN members[Len(members)][2]
  ELSE MemberOf(SubSeq(members, 1, Len(members) - 1), key)

K_workspace_id == << "w", "o", "r", "k", "s", "p", "a", "c", "e", "_", "i", "d" >>

K_organization_id ==
  << "o", "r", "g", "a", "n", "i", "z", "a", "t", "i", "o", "n", "_", "i", "d" >>

K_redirect_url == << "r", "e", "d", "i", "r", "e", "c", "t", "_", "u", "r", "l" >>


(***************************************************************************)
(* Bounds of the model.                                                    *)
(***************************************************************************)
\* The clock (Date.now()) runs from 1 to MaxTime.
MaxTime == 2

\* At most MaxRequests requests arrive in a run.
MaxRequests == 2

(***************************************************************************)
(* Values.                                                                 *)
(***************************************************************************)
W1 == << "w", "1" >>

W2 == << "w", "2" >>

Workspaces == {W1, W2}

\* The post-auth redirect URL of the application, and a redirect_url given
\* directly in the query string of a request.
AppUrl == << "/", "a" >>

QueryUrl == << "/", "q" >>

\* A token issued by the identity provider: for whom, and in which issue.
\* NoToken is an absent (undefined) token.
NoToken == [owner |-> << >>, id |-> 0]

Token(w, n) == [owner |-> w, id |-> n]

\* A credentials object {access_token, refresh_token, expiry_date}; an absent
\* expiry_date is 0, which is falsy as undefined is.  null is the SQL null.
NullCredentials ==
  [null |-> TRUE, access_token |-> NoToken, refresh_token |-> NoToken, expiry_date |-> 0]

Credentials(at, rt, exp) ==
  [null |-> FALSE, access_token |-> at, refresh_token |-> rt, expiry_date |-> exp]

\* A row of the integrations table for platform google_analytics.
NoRecord ==
  [exists |-> FALSE, status |-> "", credentials |-> NullCredentials, connected_at |-> 0]

\* What a call to the store can do: succeed, resolve with {error}, or
\* reject (the transport failed and the client library throws).
StoreOutcomes == {"ok", "error", "throw"}

ReportTools == {"get_traffic_overview", "get_top_pages", "get_traffic_sources"}

SupportedTools == ReportTools \cup {"list_properties"}

ToolInputs == SupportedTools \cup {"get_everything"}

\* params of a query: absent fields are "" and 0, which are falsy as
\* undefined is; defined = FALSE is a body without params.
NoParams ==
  [defined |-> FALSE, property_id |-> "", start_date |-> "", end_date |-> "", limit |-> 0]

ParamInputs ==
  { NoParams,
    [defined |-> TRUE, property_id |-> "123", start_date |-> "", end_date |-> "",
     limit |-> 0],
    [defined |-> TRUE, property_id |-> "123", start_date |-> "2024-01-01",
     end_date |-> "2024-01-31", limit |-> 5] }

ApiResults == {"rows-1", "rows-2"}

\* The messages of the errors the identity provider's client throws.
ProviderErrors == {"invalid_grant", "ETIMEDOUT"}

NoCall ==
  [api |-> "", property |-> "", startDate |-> "", endDate |-> "", metrics |-> << >>,
   dimensions |-> << >>, limit |-> 0, auth |-> NoToken]

\* The authorization URL generateAuthUrl builds, by its query parameters.
NoAuthUrl == [access_type |-> "", prompt |-> "", scope |-> << >>, state |-> << >>]

\* An HTTP response.  kind "none": nothing sent yet; "uncaught": the
\* handler's promise rejected and nothing was sent.
NoResponse ==
  [kind |-> "none", status |-> 0, error |-> << >>, data |-> "", success |-> FALSE,
   location |-> << >>, auth_url |-> NoAuthUrl]

Uncaught == [NoResponse EXCEPT !.kind = "uncaught"]

JsonErrorResponse(status, message) ==
  [NoResponse EXCEPT !.kind = "json", !.status = status, !.error = message]

\* res.redirect(location): 302 Found
RedirectResponse(location) ==
  [NoResponse EXCEPT !.kind = "redirect", !.status = 302, !.location = location]

SuccessMarker ==
  << "?", "s", "u", "c", "c", "e", "s", "s", "=", "t", "r", "u", "e" >>

ErrorMarker ==
  << "?", "e", "r", "r", "o", "r", "=", "a", "u", "t", "h", "_", "f", "a", "i", "l",
     "e", "d" >>

Root == << "/" >>

(***************************************************************************)
(* State.                                                                  *)
(***************************************************************************)
VARIABLES
  variant,   \* which deployment runs: "A" (index.ts) or "B" (part_000)
  now,       \* Date.now()
  nextTok,   \* the identity provider's next issue number
  started,   \* how many requests have arrived
  store,     \* integrations table: workspace_id -> row (platform google_analytics)
  client,    \* oauth2Client.credentials, the one shared OAuth client
  req        \* the requests in flight: slot -> handler state

vars == << variant, now, nextTok, started, store, client, req >>

Slots == {"r1", "r2"}

\* A slot with no request.  The fields are the locals of the handlers.
IdleReq ==
  [ handler        |-> "idle",
    pc             |-> "idle",
    workspace_id   |-> << >>,          \* req.body.workspace_id / decoded from state
    tool           |-> "",
    params         |-> NoParams,
    state          |-> Undefined,      \* req.query.state
    query_redirect |-> Undefined,      \* req.query.redirect_url
    redirect_url   |-> Undefined,      \* decoded from state
    organization_id |-> Undefined,     \* decoded from state
    sel            |-> [thrown |-> FALSE, error |-> FALSE, failed |-> FALSE,
                        credentials |-> NullCredentials],
    loaded         |-> NullCredentials, \* line 108
    grant          |-> NoToken,        \* the refresh token a refresh call carries
    tokens         |-> NullCredentials, \* what the identity provider answered
    write          |-> NullCredentials, \* the credentials of a store write
    written_at     |-> 0,
    upd            |-> "",             \* how the store call ended
    sink           |-> "",             \* how the credential sink ended
    exchange       |-> "",             \* how the token exchange ended
    expired        |-> FALSE,          \* the outcome of the freshness check
    checked_at     |-> 0,              \* Date.now() of the freshness check
    refresh        |-> "",             \* how the refresh call ended
    failure        |-> "",             \* the message of the error caught
    report         |-> NoCall,         \* the analytics call issued
    result         |-> "",             \* what the analytics API answered
    calls          |-> << >>,          \* the outbound calls, in order
    resp           |-> NoResponse ]

\* A request arrives in the free slot r.
Arrives(r) ==
  /\ req[r].pc = "idle"
  /\ started < MaxRequests
  /\ started' = started + 1

Finish(q, response) == [q EXCEPT !.pc = "done", !.resp = response]

Called(q, name) == [q EXCEPT !.calls = Append(@, name)]

(***************************************************************************)
(* POST /query, src/src/index.ts lines 92-193.                             *)
(***************************************************************************)

\* .select('credentials')...single(): the row's credentials; no row is an
\* error of single().  failed: the error is one of the store itself.
SelectResult(outcome, row) ==
  [ thrown |-> outcome = "throw",
    error  |-> outcome = "error" \/ (outcome = "ok" /\ ~row.exists),
    failed |-> outcome = "error",
    credentials |-> IF outcome = "ok" /\ row.exists THEN row.credentials
                    ELSE NullCredentials ]

\* A check that looks at the error alone.
NotConnectedErrorOnly(sel) == sel.error

\* line 104: error || !integration?.credentials
NotConnected(sel) == sel.error \/ sel.credentials.null

\* A freshness check that takes the instant of expiry for expired.
IsExpiredInclusive(expiry_date, t) == expiry_date # 0 /\ t >= expiry_date

\* line 117: expiry_date && Date.now() > expiry_date
IsExpired(expiry_date, t) == expiry_date # 0 /\ t > expiry_date

\* A write-back that stores the refresh response as it came.
WriteBackResponse(credentials, refresh_token) ==
  Credentials(credentials.access_token, credentials.refresh_token,
              credentials.expiry_date)

\* lines 125-129: the credentials written back after a refresh
WriteBackCredentials(credentials, refresh_token) ==
  Credentials(credentials.access_token,
              IF credentials.refresh_token # NoToken THEN credentials.refresh_token
              ELSE refresh_token,
              credentials.expiry_date)

\* oauth2Client.setCredentials(c)
SetCredentials(c) ==
  [access_token |-> c.access_token, refresh_token |-> c.refresh_token,
   expiry_date |-> c.expiry_date]

\* A catch that answers with a fixed text instead of error.message.
QueryCatchGeneric(q, message) ==
  Finish([q EXCEPT !.failure = message],
         JsonErrorResponse(500, << "Internal Server Error" >>))

\* lines 189-192: the catch of the handler
QueryCatch(q, message) ==
  Finish([q EXCEPT !.failure = message], JsonErrorResponse(500, << message >>))

\* lines 141-177: the runReport request of a tool
ReportMetrics(tool) ==
  CASE tool = "get_traffic_overview" ->
         << "sessions", "activeUsers", "screenPageViews", "bounceRate" >>
    [] tool = "get_top_pages" -> << "screenPageViews", "activeUsers" >>
    [] tool = "get_traffic_sources" -> << "sessions", "activeUsers" >>

ReportDimensions(tool) ==
  CASE tool = "get_traffic_overview" -> << "date" >>
    [] tool = "get_top_pages" -> << "pagePath" >>
    [] tool = "get_traffic_sources" -> << "sessionSource", "sessionMedium" >>

\* A report request that takes none of the caller's values but the property.
RunReportDefaults(tool, params, auth) ==
  [ api        |-> "properties.runReport",
    property   |-> params.property_id,
    startDate  |-> "30daysAgo",
    endDate    |-> "today",
    metrics    |-> ReportMetrics(tool),
    dimensions |-> ReportDimensions(tool),
    limit      |-> IF tool = "get_top_pages" THEN 10 ELSE 0,
    auth       |-> auth ]

RunReport(tool, params, auth) ==
  [ api        |-> "properties.runReport",
    property   |-> params.property_id,
    startDate  |-> IF params.start_date # "" THEN params.start_date ELSE "30daysAgo",
    endDate    |-> IF params.end_date # "" THEN params.end_date ELSE "today",
    metrics    |-> ReportMetrics(tool),
    dimensions |-> ReportDimensions(tool),
    limit      |-> IF tool = "get_top_pages"
                   THEN (IF params.limit # 0 THEN params.limit ELSE 10)
                   ELSE 0,
    auth       |-> auth ]

\* line 181
ListAccountSummaries(auth) == [NoCall EXCEPT !.api = "accountSummaries.list", !.auth = auth]

\* A switch whose default case falls through to the account listing.
DispatchFallThrough(q, c) ==
  IF q.tool \in ReportTools /\ q.params.defined THEN
    [Called(q, "analytics") EXCEPT
       !.pc = "q_reporting", !.report = RunReport(q.tool, q.params, c.access_token)]
  ELSE [Called(q, "analytics") EXCEPT
          !.pc = "q_reporting", !.report = ListAccountSummaries(c.access_token)]

\* lines 135-186: the switch on tool.  The call is made with whatever the
\* shared client holds when it is issued.
Dispatch(q, c) ==
  IF q.tool \in ReportTools THEN
    IF ~q.params.defined
    THEN QueryCatch(q, "TypeError: Cannot read properties of undefined")
    ELSE [Called(q, "analytics") EXCEPT
            !.pc = "q_reporting",
            !.report = RunReport(q.tool, q.params, c.access_token)]
  ELSE IF q.tool = "list_properties" THEN
    [Called(q, "analytics") EXCEPT
       !.pc = "q_reporting", !.report = ListAccountSummaries(c.access_token)]
  ELSE Finish(q, JsonErrorResponse(400, << "Unknown tool: ", q.tool >>))

\* lines 93-102: the request arrives and the store answers the select.
QueryBegin(r, w, tool, params) ==
  /\ variant = "A"
  /\ Arrives(r)
  /\ \E outcome \in StoreOutcomes :
       req' = [req EXCEPT ![r] =
                 [Called(IdleReq, "store.select") EXCEPT
                    !.handler = "query", !.pc = "q_selected",
                    !.workspace_id = w, !.tool = tool, !.params = params,
                    !.sel = SelectResult(outcome, store[w])]]
  /\ UNCHANGED << variant, now, nextTok, store, client >>

\* lines 104-118, and 135-188 when the credential is fresh.
QueryCredentials(r) ==
  LET q == req[r]
      c == SetCredentials(q.sel.credentials)
      loaded == [q EXCEPT !.loaded = q.sel.credentials, !.checked_at = now]
  IN  /\ q.pc = "q_selected"
      /\ IF q.sel.thrown THEN
           /\ req' = [req EXCEPT ![r] = QueryCatch(q, "store unreachable")]
           /\ UNCHANGED client
         ELSE IF NotConnected(q.sel) THEN
           /\ req' = [req EXCEPT ![r] =
                        Finish(q, JsonErrorResponse(401,
                                    << "Not connected to Google Analytics" >>))]
           /\ UNCHANGED client
         ELSE
           /\ client' = c
           /\ IF IsExpired(q.sel.credentials.expiry_date, now)
              THEN req' = [req EXCEPT ![r] =
                             [Called(loaded, "refresh") EXCEPT
                                !.pc = "q_refreshing", !.expired = TRUE,
                                !.grant = c.refresh_token]]
              ELSE req' = [req EXCEPT ![r] = Dispatch(loaded, c)]
      /\ UNCHANGED << variant, started, now, nextTok, store >>

\* lines 118-132: the identity provider answers the refresh.  A refresh
\* without a refresh token is refused.  The answer may or may not carry a
\* new refresh_token; refreshAccessToken is a method of the shared client,
\* and the credentials it returns may carry the refresh_token the client
\* holds when the answer arrives.
QueryRefreshed(r) ==
  LET q == req[r]
  IN  /\ q.pc = "q_refreshing"
      /\ \/ /\ \E message \in ProviderErrors :
                 req' = [req EXCEPT ![r] =
                           QueryCatch([q EXCEPT !.refresh = "failed"], message)]
            /\ UNCHANGED << client, nextTok >>
         \/ /\ q.grant # NoToken
            /\ \E returned \in {Token(q.grant.owner, nextTok), NoToken,
                                client.refresh_token} :
                 LET credentials ==
                       Credentials(Token(q.grant.owner, nextTok), returned, now + 1)
                 IN  /\ client' = SetCredentials(credentials)
                     /\ req' = [req EXCEPT ![r] =
                                  [Called(q, "store.update") EXCEPT
                                     !.pc = "q_updating",
                                     !.refresh = "ok",
                                     !.tokens = credentials,
                                     !.write = WriteBackCredentials(credentials,
                                                 q.loaded.refresh_token)]]
            /\ nextTok' = nextTok + 1
      /\ UNCHANGED << variant, started, now, store >>

\* An update that sets the access token and the expiry of the stored
\* credentials and leaves their refresh token as it is.
QueryStoreUpdateMerge(r) ==
  LET q == req[r]
  IN  /\ q.pc = "q_updating"
      /\ \E outcome \in StoreOutcomes :
           /\ req' = [req EXCEPT ![r] = [q EXCEPT !.pc = "q_updated", !.upd = outcome]]
           /\ IF outcome = "ok" /\ store[q.workspace_id].exists
              THEN store' = [store EXCEPT
                               ![q.workspace_id].credentials.access_token =
                                  q.write.access_token,
                               ![q.workspace_id].credentials.expiry_date =
                                  q.write.expiry_date]
              ELSE UNCHANGED store
      /\ UNCHANGED << variant, started, now, nextTok, client >>

\* lines 122-132, at the store: .update({credentials}).eq(...) changes the
\* row when there is one.
QueryStoreUpdate(r) ==
  LET q == req[r]
  IN  /\ q.pc = "q_updating"
      /\ \E outcome \in StoreOutcomes :
           /\ req' = [req EXCEPT ![r] = [q EXCEPT !.pc = "q_updated", !.upd = outcome]]
           /\ IF outcome = "ok" /\ store[q.workspace_id].exists
              THEN store' = [store EXCEPT ![q.workspace_id].credentials = q.write]
              ELSE UNCHANGED store
      /\ UNCHANGED << variant, started, now, nextTok, client >>

\* lines 133-188: the update resolved (its error is not looked at).
QueryUpdated(r) ==
  LET q == req[r]
  IN  /\ q.pc = "q_updated"
      /\ req' = [req EXCEPT ![r] =
                   IF q.upd = "throw" THEN QueryCatch(q, "store unreachable")
                   ELSE Dispatch(q, client)]
      /\ UNCHANGED << variant, started, now, nextTok, store, client >>

\* lines 188-192: the analytics API answers.
QueryReported(r) ==
  LET q == req[r]
  IN  /\ q.pc = "q_reporting"
      /\ \/ \E data \in ApiResults :
              req' = [req EXCEPT ![r] =
                        Finish([q EXCEPT !.result = data],
                               [NoResponse EXCEPT !.kind = "json", !.status = 200,
                                                  !.data = data])]
         \/ req' = [req EXCEPT ![r] = QueryCatch(q, "analytics API error")]
      /\ UNCHANGED << variant, started, now, nextTok, store, client >>

(***************************************************************************)
(* POST /disconnect, src/src/index.ts lines 196-210.                       *)
(***************************************************************************)

\* line 202
Disconnected(row) == [row EXCEPT !.status = "disconnected", !.credentials = NullCredentials]

\* lines 197-204: the request arrives and the store answers the update.
DisconnectBegin(r, w) ==
  /\ variant = "A"
  /\ Arrives(r)
  /\ \E outcome \in StoreOutcomes :
       /\ req' = [req EXCEPT ![r] =
                    [Called(IdleReq, "store.update") EXCEPT
                       !.handler = "disconnect", !.pc = "d_updated",
                       !.workspace_id = w, !.upd = outcome]]
       /\ IF outcome = "ok" /\ store[w].exists
          THEN store' = [store EXCEPT ![w] = Disconnected(@)]
          ELSE UNCHANGED store
  /\ UNCHANGED << variant, now, nextTok, client >>

\* lines 206-209
DisconnectResult(upd) ==
  IF upd = "throw" THEN JsonErrorResponse(500, << "store unreachable" >>)
  ELSE [NoResponse EXCEPT !.kind = "json", !.status = 200, !.success = TRUE]

DisconnectDone(r) ==
  LET q == req[r]
  IN  /\ q.pc = "d_updated"
      /\ req' = [req EXCEPT ![r] = Finish(q, DisconnectResult(q.upd))]
      /\ UNCHANGED << variant, started, now, nextTok, store, client >>

(***************************************************************************)
(* The state token.                                                        *)
(***************************************************************************)

\* index.ts line 38 / part_000 lines 35-39: the object that is encoded
StateMembers(v, workspace_id, organization_id, redirect_url) ==
  IF v = "A"
  THEN << << K_workspace_id, workspace_id >>, << K_redirect_url, redirect_url >> >>
  ELSE << << K_workspace_id, workspace_id >>,
          << K_organization_id, organization_id >>,
          << K_redirect_url, redirect_url >> >>

\* Buffer.from(JSON.stringify(o)).toString('base64')
EncodeState(members) == Base64Encode(Utf8Bytes(JsonStringify(members)))

\* JSON.parse(Buffer.from(state, 'base64').toString()); Buffer.from(undefined)
\* throws, which is the result "error" as a SyntaxError is.
DecodeState(state) ==
  IF state.t = "undefined" THEN JsonError
  ELSE JsonParse(Utf8String(Base64Decode(state.s)))

\* Destructuring, or reading a property of, a parsed value throws for null.
Throws(parsed) == parsed.t \in {"error", "null"}

\* The state values a callback may carry: none, text that is no JSON, the
\* JSON null, and tokens as /auth/init makes them.
StateInputs ==
  { Undefined,
    Str(<< "z", "z", "z", "z" >>),
    Str(Base64Encode(Utf8Bytes(<< "n", "u", "l", "l" >>))),
    Str(EncodeState(StateMembers("A", Str(W1), Undefined, Str(AppUrl)))),
    Str(EncodeState(StateMembers("A", Str(W2), Undefined, Str(AppUrl)))),
    Str(EncodeState(StateMembers("B", Str(W1), Str(<< "o" >>), Str(AppUrl)))) }

\* The decoding of each of them.
DecodedInputs == [s \in StateInputs |-> DecodeState(s)]

(***************************************************************************)
(* GET /auth/init, index.ts lines 31-51 and part_000 lines 28-52.          *)
(***************************************************************************)
\* A check of the workspace_id alone.
AuthInitResponseWorkspaceOnly(v, workspace_id, organization_id, redirect_url) ==
  IF Falsy(workspace_id)
  THEN JsonErrorResponse(400, << "Missing workspace_id or redirect_url" >>)
  ELSE [NoResponse EXCEPT
          !.kind = "json", !.status = 200,
          !.auth_url =
            [ access_type |-> "offline",
              prompt      |-> "consent",
              scope       |-> << "https://www.googleapis.com/auth/analytics.readonly",
                                 "https://www.googleapis.com/auth/analytics" >>,
              state       |-> EncodeState(StateMembers(v, workspace_id,
                                            organization_id, redirect_url)) ]]

\* index.ts lines 32-50, part_000 lines 29-51
AuthInitResponse(v, workspace_id, organization_id, redirect_url) ==
  IF Falsy(workspace_id) \/ Falsy(redirect_url)
  THEN JsonErrorResponse(400, << "Missing workspace_id or redirect_url" >>)
  ELSE [NoResponse EXCEPT
          !.kind = "json", !.status = 200,
          !.auth_url =
            [ access_type |-> "offline",
              prompt      |-> "consent",
              scope       |-> << "https://www.googleapis.com/auth/analytics.readonly",
                                 "https://www.googleapis.com/auth/analytics" >>,
              state       |-> EncodeState(StateMembers(v, workspace_id,
                                            organization_id, redirect_url)) ]]

AuthInit(r, workspace_id, organization_id, redirect_url) ==
  /\ Arrives(r)
  /\ req' = [req EXCEPT ![r] =
               Finish([IdleReq EXCEPT
                         !.handler = "auth_init",
                         !.workspace_id = ToText(workspace_id),
                         !.organization_id = organization_id,
                         !.query_redirect = redirect_url],
                      AuthInitResponse(variant, workspace_id, organization_id,
                                       redirect_url))]
  /\ UNCHANGED << variant, now, nextTok, store, client >>

(***************************************************************************)
(* GET /callback, index.ts lines 54-89 and part_000 lines 55-98.           *)
(***************************************************************************)

\* index.ts lines 85-88: the catch of variant A
CallbackCatchA(q) ==
  Finish(q, RedirectResponse(
              (IF Falsy(q.query_redirect) THEN Root ELSE q.query_redirect.s)
              \o ErrorMarker))

\* part_000 lines 91-97: the catch of variant B decodes the state again
CallbackCatchB(q) ==
  IF Falsy(q.state) THEN Finish(q, RedirectResponse(Root \o ErrorMarker))
  ELSE IF Throws(DecodedInputs[q.state]) THEN Finish(q, Uncaught)
  ELSE Finish(q, RedirectResponse(
                   ToText(MemberOf(DecodedInputs[q.state].members, K_redirect_url))
                   \o ErrorMarker))

CallbackCatch(v, q) == IF v = "A" THEN CallbackCatchA(q) ELSE CallbackCatchB(q)

\* index.ts line 84, part_000 line 90
CallbackSuccess(q) == Finish(q, RedirectResponse(ToText(q.redirect_url) \o SuccessMarker))

\* index.ts lines 55-62, part_000 lines 56-63: the request arrives, the state
\* is decoded and the token exchange is issued.
CallbackBegin(r, state, query_redirect) ==
  LET q == [IdleReq EXCEPT !.handler = "callback", !.state = state,
                           !.query_redirect = query_redirect]
      parsed == DecodedInputs[state]
  IN  /\ Arrives(r)
      /\ req' = [req EXCEPT ![r] =
                   IF Throws(parsed) THEN CallbackCatch(variant, q)
                   ELSE [Called(q, "getToken") EXCEPT
                           !.pc = "c_exchanging",
                           !.workspace_id =
                              ToText(MemberOf(parsed.members, K_workspace_id)),
                           !.organization_id =
                              IF variant = "B"
                              THEN MemberOf(parsed.members, K_organization_id)
                              ELSE Undefined,
                           !.redirect_url = MemberOf(parsed.members, K_redirect_url)]]
      /\ UNCHANGED << variant, now, nextTok, store, client >>

\* index.ts lines 62-79, part_000 lines 63-81: the identity provider answers
\* the exchange; the tokens go to the credential sink.  The authorization
\* was asked with access_type offline and prompt consent, so the answer
\* carries a refresh token; it may lack an expiry.
CallbackExchanged(r) ==
  LET q == req[r]
  IN  /\ q.pc = "c_exchanging"
      /\ \/ /\ req' = [req EXCEPT ![r] =
                         CallbackCatch(variant, [q EXCEPT !.exchange = "failed"])]
            /\ UNCHANGED nextTok
         \/ /\ \E expiring \in BOOLEAN :
                 req' = [req EXCEPT ![r] =
                           [Called(q, IF variant = "A" THEN "store.upsert" ELSE "bridge")
                              EXCEPT
                              !.pc = IF variant = "A" THEN "c_upserting" ELSE "c_posting",
                              !.exchange = "ok",
                              !.written_at = now,
                              !.tokens =
                                 Credentials(Token(q.workspace_id, nextTok),
                                             Token(q.workspace_id, nextTok),
                                             IF expiring THEN now + 1 ELSE 0)]]
            /\ nextTok' = nextTok + 1
      /\ UNCHANGED << variant, started, now, store, client >>

\* index.ts lines 67-79: the row an upsert leaves
Connected(credentials, at) ==
  [exists |-> TRUE, status |-> "connected", credentials |-> credentials,
   connected_at |-> at]

\* index.ts lines 65-79, at the store
CallbackStoreUpsert(r) ==
  LET q == req[r]
  IN  /\ q.pc = "c_upserting"
      /\ q.workspace_id \in Workspaces
      /\ \E outcome \in StoreOutcomes :
           /\ req' = [req EXCEPT ![r] = [q EXCEPT !.pc = "c_stored", !.sink = outcome]]
           /\ IF outcome = "ok"
              THEN store' = [store EXCEPT ![q.workspace_id] =
                               Connected(q.tokens, q.written_at)]
              ELSE UNCHANGED store
      /\ UNCHANGED << variant, started, now, nextTok, client >>

\* part_000 lines 66-81: the bridge answers 2xx, another status, or the
\* fetch rejects.
BridgeOutcomes == {"ok", "error", "throw"}

CallbackBridgePost(r) ==
  LET q == req[r]
  IN  /\ q.pc = "c_posting"
      /\ \E outcome \in BridgeOutcomes :
           req' = [req EXCEPT ![r] = [q EXCEPT !.pc = "c_stored", !.sink = outcome]]
      /\ UNCHANGED << variant, started, now, nextTok, store, client >>

\* A check that only a rejected call fails.
SinkNotThrown(sink) == sink # "throw"

\* index.ts line 81 (if (error) throw error), part_000 line 83 (!response.ok)
SinkAccepted(sink) == sink = "ok"

\* index.ts lines 81-88, part_000 lines 83-97
CallbackStored(r) ==
  LET q == req[r]
  IN  /\ q.pc = "c_stored"
      /\ req' = [req EXCEPT ![r] =
                   IF SinkAccepted(q.sink) THEN CallbackSuccess(q)
                   ELSE CallbackCatch(variant, q)]
      /\ UNCHANGED << variant, started, now, nextTok, store, client >>

(***************************************************************************)
(* The environment.                                                        *)
(***************************************************************************)

\* Time passes.
Tick ==
  /\ now < MaxTime
  /\ now' = now + 1
  /\ UNCHANGED << variant, started, nextTok, store, client, req >>

\* A finished request leaves its slot.
Release(r) ==
  /\ req[r].pc = "done"
  /\ req' = [req EXCEPT ![r] = IdleReq]
  /\ UNCHANGED << variant, started, now, nextTok, store, client >>

\* A query parameter that may be left out.
OptionalText(s) == {Undefined, Str(s)}

\* The rows the store may hold when the relay starts: none, or one left by
\* an earlier run, whose access token expires at time 1.
InitRows(w) == {NoRecord, Connected(Credentials(Token(w, 1), Token(w, 1), 1), 1)}

Init ==
  /\ variant \in {"A", "B"}
  /\ now = 1
  /\ nextTok = 2
  /\ started = 0
  /\ store \in {f \in [Workspaces -> UNION {InitRows(w) : w \in Workspaces}] :
                   \A w \in Workspaces :
                     f[w] \in InitRows(w) /\ (variant = "B" => f[w] = NoRecord)}
  /\ client = SetCredentials(NullCredentials)
  /\ req = [r \in Slots |-> IdleReq]

\* One request at a time, with every input: a request arrives in slot r1
\* when the slot is free, and leaves it when answered.
Next ==
  \/ \E w \in Workspaces, tool \in ToolInputs, params \in ParamInputs :
       QueryBegin("r1", w, tool, params)
  \/ QueryCredentials("r1")
  \/ QueryRefreshed("r1")
  \/ QueryStoreUpdate("r1")
  \/ QueryUpdated("r1")
  \/ QueryReported("r1")
  \/ \E w \in Workspaces : DisconnectBegin("r1", w)
  \/ DisconnectDone("r1")
  \/ \E w \in OptionalText(W1), o \in OptionalText(<< "o" >>),
        u \in OptionalText(AppUrl) : AuthInit("r1", w, o, u)
  \/ \E state \in StateInputs, u \in OptionalText(QueryUrl) :
       CallbackBegin("r1", state, u)
  \/ CallbackExchanged("r1")
  \/ CallbackStoreUpsert("r1")
  \/ CallbackBridgePost("r1")
  \/ CallbackStored("r1")
  \/ Release("r1")
  \/ Tick

Spec == Init /\ [][Next]_vars

\* Two requests of the direct-store variant in flight together, in every
\* interleaving of their segments; r1 is the one that arrives first.
ConcurrentTools == {"get_traffic_overview", "list_properties", "get_everything"}

ConcurrentParams == {p \in ParamInputs : p.defined /\ p.limit = 0}

ConcurrentStates == {s \in StateInputs : ~Throws(DecodedInputs[s])}

Arrival(r) == r = "r1" \/ req["r1"].pc # "idle"

InitConcurrent == Init /\ variant = "A"

NextConcurrent ==
  \/ \E r \in Slots, w \in Workspaces, tool \in ConcurrentTools,
        params \in ConcurrentParams :
       Arrival(r) /\ QueryBegin(r, w, tool, params)
  \/ \E r \in Slots : QueryCredentials(r)
  \/ \E r \in Slots : QueryRefreshed(r)
  \/ \E r \in Slots : QueryStoreUpdate(r)
  \/ \E r \in Slots : QueryUpdated(r)
  \/ \E r \in Slots : QueryReported(r)
  \/ \E r \in Slots, w \in Workspaces : Arrival(r) /\ DisconnectBegin(r, w)
  \/ \E r \in Slots : DisconnectDone(r)
  \/ \E r \in Slots, state \in ConcurrentStates :
       Arrival(r) /\ CallbackBegin(r, state, Undefined)
  \/ \E r \in Slots : CallbackExchanged(r)
  \/ \E r \in Slots : CallbackStoreUpsert(r)
  \/ \E r \in Slots : CallbackStored(r)
  \/ Tick

SpecConcurrent == InitConcurrent /\ [][NextConcurrent]_vars

\* Two queries of the direct-store variant in flight together, in every
\* interleaving of their segments, and no other request; the tool is one
\* that reads no params.
NextQueries ==
  \/ \E r \in Slots, w \in Workspaces :
       Arrival(r) /\ QueryBegin(r, w, "list_properties", NoParams)
  \/ \E r \in Slots : QueryCredentials(r)
  \/ \E r \in Slots : QueryRefreshed(r)
  \/ \E r \in Slots : QueryStoreUpdate(r)
  \/ \E r \in Slots : QueryUpdated(r)
  \/ \E r \in Slots : QueryReported(r)
  \/ Tick

SpecQueries == InitConcurrent /\ [][NextQueries]_vars

\* Two requests of the direct-store variant one after the other: r2 arrives
\* when r1 has been answered, and r1 stays as it was answered.  The store
\* may also start with a row an earlier disconnect left.
Later(r) == r = "r1" \/ req["r1"].pc = "done"

LifecycleRows(w) == InitRows(w) \cup {Disconnected(row) : row \in InitRows(w) \ {NoRecord}}

InitLifecycle ==
  /\ variant = "A"
  /\ now = 1
  /\ nextTok = 2
  /\ started = 0
  /\ store \in {f \in [Workspaces -> UNION {LifecycleRows(w) : w \in Workspaces}] :
                   \A w \in Workspaces : f[w] \in LifecycleRows(w)}
  /\ client = SetCredentials(NullCredentials)
  /\ req = [r \in Slots |-> IdleReq]

NextLifecycle ==
  \/ \E r \in Slots, w \in Workspaces, tool \in ConcurrentTools,
        params \in ConcurrentParams :
       Later(r) /\ QueryBegin(r, w, tool, params)
  \/ \E r \in Slots : QueryCredentials(r)
  \/ \E r \in Slots : QueryRefreshed(r)
  \/ \E r \in Slots : QueryStoreUpdate(r)
  \/ \E r \in Slots : QueryUpdated(r)
  \/ \E r \in Slots : QueryReported(r)
  \/ \E r \in Slots, w \in Workspaces : Later(r) /\ DisconnectBegin(r, w)
  \/ \E r \in Slots : DisconnectDone(r)
  \/ \E r \in Slots, state \in ConcurrentStates :
       Later(r) /\ CallbackBegin(r, state, Undefined)
  \/ \E r \in Slots : CallbackExchanged(r)
  \/ \E r \in Slots : CallbackStoreUpsert(r)
  \/ \E r \in Slots : CallbackStored(r)
  \/ Tick

SpecLifecycle == InitLifecycle /\ [][NextLifecycle]_vars

(***************************************************************************)
(* Properties.                                                             *)
(***************************************************************************)
Answered(r, handler) == req[r].handler = handler /\ req[r].pc = "done"

HasSuffix(text, suffix) ==
  /\ Len(text) >= Len(suffix)
  /\ SubSeq(text, Len(text) - Len(suffix) + 1, Len(text)) = suffix

Count(calls, name) == Cardinality({i \in 1..Len(calls) : calls[i] = name})

\* The lookup of a query found credentials: the workspace is connected.
FoundCredentials(q) == ~q.sel.thrown /\ ~q.sel.error /\ ~q.sel.credentials.null

\* C1: every GET /callback, whatever its inputs and whatever the exchange
\* and the sink do, ends with a redirect response: never with an uncaught
\* exception, an error page or no response.
C1_CallbackAlwaysRedirects ==
  \A r \in Slots : Answered(r, "callback") => req[r].resp.kind = "redirect"

\* C2: the analytics call made for a query of workspace W is authenticated
\* with an access token of W, in every interleaving of concurrent queries.
C2_ReportUsesOwnToken ==
  \A r \in Slots :
    (req[r].handler = "query" /\ req[r].report.api # "")
      => req[r].report.auth.owner = req[r].workspace_id

\* C3: the write-back after a refresh leaves the stored refresh_token as it
\* was when the refresh response has none, stores the new one when it has
\* one, and never replaces a present refresh_token by an absent one.
C3_RefreshTokenPreserved ==
  [][\A r \in Slots :
       (req[r].pc = "q_updating" /\ req'[r].pc = "q_updated" /\ req'[r].upd = "ok")
         => LET w == req[r].workspace_id
                before == store[w].credentials.refresh_token
                after == store'[w].credentials.refresh_token
            IN  /\ req[r].tokens.refresh_token = NoToken => after = before
                /\ req[r].tokens.refresh_token # NoToken
                     => after = req[r].tokens.refresh_token
                /\ before # NoToken => after # NoToken]_vars

C3_Witness ==
  \E r \in Slots :
    /\ req[r].pc = "q_updated" /\ req[r].upd = "ok"
    /\ req[r].tokens.refresh_token = NoToken
    /\ store[req[r].workspace_id].credentials.access_token = req[r].tokens.access_token
    /\ store[req[r].workspace_id].credentials.refresh_token = req[r].loaded.refresh_token
    /\ req[r].loaded.refresh_token # NoToken

\* C4: a query that found credentials makes exactly one refresh call, before
\* any analytics call, when the stored expiry_date is strictly before the
\* time of the check, and none when it is not or when there is no
\* expiry_date.
C4_RefreshExactlyWhenExpired ==
  \A r \in Slots :
    LET q == req[r]
        past == q.loaded.expiry_date # 0 /\ q.loaded.expiry_date < q.checked_at
    IN  (q.handler = "query" /\ q.pc # "q_selected" /\ FoundCredentials(q))
          => /\ Count(q.calls, "refresh") = (IF past THEN 1 ELSE 0)
             /\ \A i, j \in 1..Len(q.calls) :
                  (q.calls[i] = "refresh" /\ q.calls[j] = "analytics") => i < j

\* An expired credential was refreshed and the report call followed.
C4_Witness ==
  \E r \in Slots :
    /\ req[r].handler = "query" /\ req[r].pc = "q_reporting"
    /\ req[r].loaded.expiry_date # 0
    /\ req[r].loaded.expiry_date < req[r].checked_at
    /\ req[r].calls = << "store.select", "refresh", "store.update", "analytics" >>

\* C5: a query for a workspace that has no row, or a row with null
\* credentials, is answered 401 "Not connected to Google Analytics" once
\* the lookup is answered, having called neither the identity provider nor
\* the analytics API and written nothing to the store.
C5_NotConnectedIs401 ==
  \A r \in Slots :
    LET q == req[r]
        row == store[q.workspace_id]
    IN  (Answered(r, "query") /\ ~q.sel.thrown
         /\ (~row.exists \/ row.credentials.null))
          => /\ q.resp.kind = "json" /\ q.resp.status = 401
             /\ q.resp.error = << "Not connected to Google Analytics" >>
             /\ q.calls = << "store.select" >>

\* The row exists, with null credentials.
C5_Witness ==
  \E r \in Slots :
    /\ Answered(r, "query") /\ ~req[r].sel.thrown /\ ~req[r].sel.error
    /\ store[req[r].workspace_id].exists
    /\ store[req[r].workspace_id].credentials.null
    /\ req[r].resp.status = 401

C7_SuccessOnlyWhenStored ==
  \A r \in Slots :
    LET q == req[r]
    IN  Answered(r, "callback")
          => /\ HasSuffix(q.resp.location, SuccessMarker)
                  => /\ q.exchange = "ok" /\ q.sink = "ok"
                     /\ variant = "A"
                          => /\ store[q.workspace_id].status = "connected"
                             /\ store[q.workspace_id].credentials = q.tokens
             /\ (q.exchange = "failed" \/ q.sink \in {"error", "throw"})
                  => /\ q.resp.kind = "redirect"
                     /\ HasSuffix(q.resp.location, ErrorMarker)
                     /\ ~HasSuffix(q.resp.location, SuccessMarker)

\* The sink refused the tokens and the callback redirected with the error.
C7_Witness ==
  \E r \in Slots :
    /\ Answered(r, "callback") /\ req[r].exchange = "ok" /\ req[r].sink = "error"
    /\ HasSuffix(req[r].resp.location, ErrorMarker)

\* C8: the callback redirects to the redirect_url R of the decoded state,
\* with ?success=true on success and ?error=auth_failed when the exchange
\* or the sink failed; when the state cannot be decoded it redirects to the
\* redirect_url of the query if there is one, else to the root, with
\* ?error=auth_failed.
C8_RedirectTarget ==
  \A r \in Slots :
    LET q == req[r]
        parsed == DecodedInputs[q.state]
        R == MemberOf(parsed.members, K_redirect_url)
    IN  (Answered(r, "callback") /\ q.resp.kind = "redirect")
          => IF ~Throws(parsed) /\ R # Undefined
             THEN q.resp.location =
                    R.s \o (IF q.exchange = "ok" /\ q.sink = "ok" THEN SuccessMarker
                            ELSE ErrorMarker)
             ELSE q.resp.location =
                    (IF q.query_redirect # Undefined THEN q.query_redirect.s ELSE Root)
                    \o ErrorMarker

\* C9: a disconnect whose store update succeeded answers {success: true}
\* whatever the prior state of the workspace, and leaves a row with status
\* disconnected and null credentials.
C9_DisconnectLeavesDisconnectedRow ==
  \A r \in Slots :
    LET q == req[r]
        row == store[q.workspace_id]
    IN  (Answered(r, "disconnect") /\ q.upd = "ok")
          => /\ q.resp.success
             /\ row.exists /\ row.status = "disconnected" /\ row.credentials.null

\* C10: when the refresh call of a query fails the answer is 500 with the
\* message of the error, no analytics call and no store write is made, the
\* refresh is not repeated, and the row is as it was loaded.
C10_RefreshFailureIs500 ==
  \A r \in Slots :
    LET q == req[r]
    IN  (Answered(r, "query") /\ q.refresh = "failed")
          => /\ q.resp.kind = "json" /\ q.resp.status = 500
             /\ q.failure \in ProviderErrors
             /\ q.resp.error = << q.failure >>
             /\ q.calls = << "store.select", "refresh" >>
             /\ q.report = NoCall
             /\ store[q.workspace_id].credentials = q.loaded

C10_Witness ==
  \E r \in Slots :
    /\ Answered(r, "query") /\ req[r].refresh = "failed"
    /\ req[r].resp.error = << "ETIMEDOUT" >>

\* C11: when the store update of a disconnect fails (the store refuses it
\* with an error, or cannot be reached) the answer is a 500 error and not
\* {success: true}.
C11_DisconnectStoreFailureIs500 ==
  \A r \in Slots :
    LET q == req[r]
    IN  (Answered(r, "disconnect") /\ q.upd \in {"error", "throw"})
          => /\ q.resp.kind = "json" /\ q.resp.status = 500
             /\ ~q.resp.success

\* C12: a query whose lookup fails in the store itself (the store returns
\* an error that is not the absence of a row, or cannot be reached) is
\* answered 500 with the message of the error; 401 is answered only when
\* the lookup worked and found no row or null credentials.
C12_StoreFailureIs500 ==
  \A r \in Slots :
    LET q == req[r]
    IN  Answered(r, "query")
          => /\ (q.sel.thrown \/ q.sel.failed)
                  => /\ q.resp.kind = "json" /\ q.resp.status = 500
                     /\ q.resp.error = << q.failure >>
             /\ q.resp.status = 401
                  => /\ ~q.sel.thrown /\ ~q.sel.failed
                     /\ q.sel.credentials.null

\* C13: /auth/init with workspace_id or redirect_url missing answers 400
\* with an error and no auth_url, and with both present answers an
\* auth_url; in either case the step changes neither the store nor the
\* OAuth client, and calls neither the identity provider nor the sink.
C13_AuthInitNoSideEffects ==
  [][ \A r \in Slots :
       (req[r].pc = "idle" /\ req'[r].handler = "auth_init") =>
        \A w \in OptionalText(W1), o \in OptionalText(<< "o" >>),
           u \in OptionalText(AppUrl) :
        LET q == req'[r]
        IN  AuthInit(r, w, o, u)
              => /\ q.pc = "done" /\ q.resp.kind = "json"
                 /\ IF w = Undefined \/ u = Undefined
                    THEN /\ q.resp.status = 400
                         /\ q.resp.error # << >>
                         /\ q.resp.auth_url = NoAuthUrl
                    ELSE /\ q.resp.status = 200
                         /\ q.resp.error = << >>
                         /\ q.resp.auth_url # NoAuthUrl
                         /\ q.resp.auth_url.state # << >>
                 /\ q.calls = << >>
                 /\ store' = store /\ client' = client /\ nextTok' = nextTok
    ]_vars

\* An /auth/init without redirect_url was refused while the store holds a
\* connected row.
C13_Witness ==
  \E r \in Slots :
    /\ Answered(r, "auth_init")
    /\ req[r].workspace_id = ToText(Str(W1)) /\ req[r].query_redirect = Undefined
    /\ req[r].resp.status = 400 /\ req[r].resp.auth_url = NoAuthUrl
    /\ store[W1].exists

\* C14: for every workspace_id, organization_id (which may be absent) and
\* redirect_url given to /auth/init, decoding the state of the auth URL as
\* the callback does yields a record with exactly these fields and values.
C14_StateRoundTrip ==
  [][ \A r \in Slots :
       (req[r].pc = "idle" /\ req'[r].handler = "auth_init"
          /\ req'[r].resp.status = 200) =>
        \A w \in OptionalText(W1), o \in OptionalText(<< "o" >>),
           u \in OptionalText(AppUrl) :
        LET parsed == DecodeState(Str(req'[r].resp.auth_url.state))
        IN  AuthInit(r, w, o, u)
              => /\ parsed.t = "object"
                 /\ MemberOf(parsed.members, K_workspace_id) = w
                 /\ MemberOf(parsed.members, K_organization_id) = o
                 /\ MemberOf(parsed.members, K_redirect_url) = u
                 /\ Len(parsed.members) = IF o = Undefined THEN 2 ELSE 3
    ]_vars

\* The analytics call of q is the one documented for its tool: the tool's
\* metrics and dimensions, the caller's start_date, end_date and limit where
\* given and 30daysAgo, today and 10 where not.
DocumentedCall(q) ==
  LET p == q.params
      shape(metrics, dimensions, limit) ==
        /\ q.report.api = "properties.runReport"
        /\ q.report.property = p.property_id
        /\ q.report.startDate = (IF p.start_date # "" THEN p.start_date ELSE "30daysAgo")
        /\ q.report.endDate = (IF p.end_date # "" THEN p.end_date ELSE "today")
        /\ q.report.metrics = metrics
        /\ q.report.dimensions = dimensions
        /\ q.report.limit = limit
  IN  CASE q.tool = "get_traffic_overview" ->
             shape(<< "sessions", "activeUsers", "screenPageViews", "bounceRate" >>,
                   << "date" >>, 0)
        [] q.tool = "get_top_pages" ->
             shape(<< "screenPageViews", "activeUsers" >>, << "pagePath" >>,
                   IF p.limit # 0 THEN p.limit ELSE 10)
        [] q.tool = "get_traffic_sources" ->
             shape(<< "sessions", "activeUsers" >>,
                   << "sessionSource", "sessionMedium" >>, 0)
        [] q.tool = "list_properties" -> q.report.api = "accountSummaries.list"
        [] OTHER -> FALSE

\* The query made exactly one analytics call, the documented one, without
\* a refresh, and answered what the API answered.
OneDocumentedCall(q) ==
  /\ Count(q.calls, "analytics") = 1
  /\ Count(q.calls, "refresh") = 0
  /\ DocumentedCall(q)
  /\ q.result # ""
       => /\ q.resp.kind = "json" /\ q.resp.status = 200
          /\ q.resp.data = q.result

\* A query for a connected workspace whose credential was not expired and
\* whose tool is one of the four supported has been answered.
FreshSupportedQuery(r) ==
  /\ Answered(r, "query") /\ FoundCredentials(req[r]) /\ ~req[r].expired
  /\ req[r].tool \in SupportedTools

C16_PersistedBeforeReport ==
  \A r \in Slots :
    LET q == req[r]
    IN  (q.handler = "query" /\ q.refresh = "ok" /\ Count(q.calls, "analytics") > 0)
          => /\ q.upd = "ok"
             /\ q.pc = "q_reporting" => store[q.workspace_id].credentials = q.write

\* The next segment of the request in slot r can run now.
CanProceed(r) ==
  /\ req[r].pc = "q_refreshing" => ENABLED QueryRefreshed(r)
  /\ req[r].pc = "q_updating" => ENABLED QueryStoreUpdate(r)
  /\ req[r].pc = "q_updated" => ENABLED QueryUpdated(r)
  /\ req[r].pc = "q_reporting" => ENABLED QueryReported(r)

\* Both slots hold queries of one workspace that found its token expired.
BothRefresh ==
  /\ \A r \in Slots : req[r].handler = "query" /\ req[r].expired
  /\ req["r1"].workspace_id = req["r2"].workspace_id

\* C17: when two concurrent queries of one workspace both find its token
\* expired and refresh, neither waits for the other (each can always take
\* its next step, so both complete), every credential set written back has
\* the access_token and expiry_date of one refresh response and a
\* refresh_token, and the record holds, once one of the writes succeeded,
\* exactly the set written by one of the two.
C17_ConcurrentRefreshHarmless ==
  LET written == {req[r].write : r \in {s \in Slots : req[s].upd = "ok"}}
  IN  BothRefresh
        => /\ \A r \in Slots : CanProceed(r)
           /\ \A r \in Slots :
                req[r].refresh = "ok"
                  => /\ ~req[r].write.null
                     /\ req[r].write.access_token = req[r].tokens.access_token
                     /\ req[r].write.expiry_date = req[r].tokens.expiry_date
                     /\ req[r].write.refresh_token # NoToken
           /\ written # {}
                => store[req["r1"].workspace_id].credentials \in written

\* Both queries refreshed and wrote different credential sets back, one
\* with a rotated refresh token, and both were answered.
C17_Witness ==
  /\ BothRefresh
  /\ \A r \in Slots : Answered(r, "query") /\ req[r].upd = "ok"
  /\ req["r1"].write.refresh_token # req["r2"].write.refresh_token
  /\ store[req["r1"].workspace_id].credentials = req["r2"].write

\* C18: in every state of the store, whatever the interleaving of
\* disconnects with queries that refresh, a row whose status is
\* disconnected has null credentials.
C18_DisconnectedHasNoCredentials ==
  \A w \in Workspaces :
    store[w].status = "disconnected" => store[w].credentials.null

\* C19: a query for W that arrives after a disconnect for W was answered
\* with success is answered 401 and calls neither the identity provider nor
\* the analytics API; a query for W that arrives after a callback for W
\* redirected with success is served with the tokens that callback stored.
\* (A query whose lookup cannot reach the store is left aside.)
C19_DisconnectedUntilCallback ==
  LET first == req["r1"]
      q == req["r2"]
      later == /\ q.handler = "query" /\ q.workspace_id = first.workspace_id
               /\ ~q.sel.thrown
  IN  /\ ( /\ Answered("r1", "disconnect") /\ first.resp.success
           /\ later /\ q.pc = "done" )
           => /\ q.resp.kind = "json" /\ q.resp.status = 401
              /\ q.calls = << "store.select" >>
      /\ ( /\ Answered("r1", "callback")
           /\ HasSuffix(first.resp.location, SuccessMarker)
           /\ later /\ ~q.sel.failed /\ q.pc # "q_selected" )
           => /\ q.loaded = first.tokens
              /\ q.resp.status # 401

\* C20: whatever the interleaving of queries and callbacks over the shared
\* OAuth client, the credentials a row of workspace W holds are tokens
\* issued for W, and a refresh whose answer is written back to W's row was
\* made with W's own refresh token.
C20_RecordHoldsOwnTokens ==
  /\ \A w \in Workspaces :
       ~store[w].credentials.null
         => /\ store[w].credentials.access_token.owner = w
            /\ store[w].credentials.refresh_token.owner = w
  /\ \A r \in Slots :
       (req[r].handler = "query" /\ req[r].refresh = "ok")
         => req[r].grant.owner = req[r].workspace_id
=============================================================================
